---- MODULE Spec2Model ----
(***************************************************************************)
(* Voice-activated video player (src/main.py): a Streamlit script that     *)
(* transcribes a recording and/or an uploaded file with a cached Whisper   *)
(* pipeline, reduces the text to one command word and plays the video      *)
(* mapped to it.                                                           *)
(*                                                                         *)
(* Three specifications share the module:                                  *)
(*   Spec      script runs of main(), one statement group per step;        *)
(*   SpecLoad  concurrent first callers of load_whisper_model();           *)
(*   SpecText  clean_text() and show_results() on arbitrary strings.       *)
(***************************************************************************)
EXTENDS Integers, Sequences, FiniteSets, TLC

\* ------------------------------------------------------------------ bounds
MaxLen == 4          \* longest string drawn in SpecText
MaxRuns == 3         \* script runs of main() per behaviour of Spec
NCallers == 2        \* concurrent sessions in SpecLoad
MaxCalls == 2        \* calls of load_whisper_model per session in SpecLoad

\* ------------------------------------------------------------- characters
\* A string is a tuple of characters.  "Idot" is U+0130 (capital I with dot
\* above), "cdot" is U+0307 (combining dot above), "sp" is a blank.
Alphabet == {"y", "e", "s", "Y", "!", "sp", "Idot", "cdot"}

\* None is distinct from every string, the empty string included.
None == <<"None">>

\* \w of the re module: alphanumerics and the underscore.  U+0307 is a
\* combining mark (category Mn): not alphanumeric.
IsWord(c) == c \notin {"!", "sp", "cdot"}

\* \s of the re module, and the blanks of str.strip / str.split.
IsSpace(c) == c = "sp"

\* str.lower of one character: U+0130 lowers to the two characters
\* U+0069 U+0307.
LowerChar(c) ==
  CASE c = "Y" -> <<"y">>
    [] c = "Idot" -> <<"i", "cdot">>
    [] OTHER -> <<c>>

\* re.sub(r'[^\w\s]', '', text)
RECURSIVE RemovePunct(_)
RemovePunct(t) ==
  IF t = <<>> THEN <<>>
  ELSE IF IsWord(Head(t)) \/ IsSpace(Head(t))
       THEN <<Head(t)>> \o RemovePunct(Tail(t))
       ELSE RemovePunct(Tail(t))

RECURSIVE LStrip(_)
LStrip(t) ==
  IF t # <<>> /\ IsSpace(Head(t)) THEN LStrip(Tail(t)) ELSE t

RECURSIVE RStrip(_)
RStrip(t) ==
  IF t # <<>> /\ IsSpace(t[Len(t)]) THEN RStrip(SubSeq(t, 1, Len(t) - 1)) ELSE t

\* str.strip()
Strip(t) == RStrip(LStrip(t))

\* str.lower()
RECURSIVE Lower(_)
Lower(t) ==
  IF t = <<>> THEN <<>> ELSE LowerChar(Head(t)) \o Lower(Tail(t))

\* the characters of t up to its first blank
RECURSIVE UpToSpace(_)
UpToSpace(t) ==
  IF t = <<>> \/ IsSpace(Head(t)) THEN <<>>
  ELSE <<Head(t)>> \o UpToSpace(Tail(t))

\* text.split()[0], for a text that holds a non-blank character
FirstToken(t) == UpToSpace(LStrip(t))

\* def clean_text(text)
clean_text(text) ==
  LET t == Lower(Strip(RemovePunct(text)))
  IN IF t # <<>> THEN FirstToken(t) ELSE <<>>

\* ----------------------------------------------------------------- registry
\* VIDEO_MAPPING: command word -> video file
VIDEO_MAPPING ==
  (<<"h", "e", "l", "l", "o">> :> "videos/hello.mp4") @@
  (<<"y", "e", "s">> :> "videos/yes.mp4") @@
  (<<"n", "o">> :> "videos/no.mp4")

\* ", ".join(VIDEO_MAPPING.keys()): the keys in insertion order
AvailableCommands == << <<"h", "e", "l", "l", "o">>, <<"y", "e", "s">>, <<"n", "o">> >>

NoVideo == "no video"

\* Strings of length at most n over Alphabet
Strings(n) == UNION {[1..k -> Alphabet] : k \in 0..n}

\* k is a prefix of t
IsPrefix(k, t) == Len(k) <= Len(t) /\ SubSeq(t, 1, Len(k)) = k

\* `text in VIDEO_MAPPING` as a partial match (a plausible slip)
LookupPrefix(text) ==
  IF \E k \in DOMAIN VIDEO_MAPPING : IsPrefix(k, text)
  THEN VIDEO_MAPPING[CHOOSE k \in DOMAIN VIDEO_MAPPING : IsPrefix(k, text)]
  ELSE NoVideo

\* show_results: `if text in VIDEO_MAPPING: video_path = VIDEO_MAPPING[text]`
Lookup(text) ==
  IF text \in DOMAIN VIDEO_MAPPING THEN VIDEO_MAPPING[text] ELSE NoVideo

\* Python truthiness of a value that is None or a string
Truthy(x) == x # None /\ x # <<>>

\* ------------------------------------------------------------------ audio
\* The audio contents a recording or an upload can hold.  "empty" is b"".
Clips == {"empty", "corrupt", "yes", "silence", "yess"}

\* The value of a widget that holds nothing (None)
NoAudio == "none"

\* `if audio_bytes:` - None and b"" are falsy
BytesTruthy(a) == a \notin {NoAudio, "empty"}

\* `if audio_file:` - an UploadedFile is truthy whatever it holds
FileTruthy(a) == a # NoAudio

InferenceError == <<"InferenceError">>

\* result["text"] of pipe(tmp_path): what the model emits for each clip.
\* Bytes that do not decode make the pipeline's audio reader raise.
Transcript(a) ==
  CASE a = "yes" -> <<"Y", "e", "s", "!">>
    [] a = "silence" -> <<>>
    [] a = "yess" -> <<"y", "e", "s", "s">>
    [] OTHER -> InferenceError

\* ------------------------------------------------------------------ state
VARIABLES
  pc,            \* position of the script thread in main / process_audio
  runs,          \* script runs started so far
  audio_bytes,   \* main: the recorder's value (None or a clip)
  audio_file,    \* main: the uploader's value (None or a file holding a clip)
  result_text,   \* main: result_text
  ret_to,        \* which call of process_audio is running: "rec" or "upl"
  arg,           \* process_audio: audio_bytes parameter
  tmp_path,      \* process_audio: tmp_path (Unbound until line 53)
  pipe,          \* process_audio: pipe
  text,          \* process_audio: result["text"]
  exc,           \* process_audio: the exception raised in the try body
  pending,       \* process_audio: the return value or exception in flight
  files,         \* temporary files that exist on disk
  cache,         \* st.cache_resource entry of load_whisper_model
  constructions, \* number of pipeline(...) calls made so far
  ui,            \* elements the current script run has displayed
  log,           \* records the current script run has logged
  made,          \* history: the file the current call created (0: none)
  origin,        \* history: the first failure of the current call
  invoked,       \* history: the stages the current call has invoked
  reqs,          \* history: the calls of process_audio this run has finished
  load_failed,   \* history: a model construction has failed
  err_handle,    \* history: the handle whose latest call raised InferenceError
  lpc,           \* SpecLoad: each session's position in load_whisper_model
  lgot,          \* SpecLoad: what each session's latest call observed
  lcalls,        \* SpecLoad: calls each session has made
  lock,          \* SpecLoad: holder of the cache's compute lock (0: free)
  all_in,        \* SpecLoad history: every session had called before the
                 \* first construction started
  s,             \* SpecText: the string drawn
  once,          \* SpecText: clean_text(s)
  twice,         \* SpecText: clean_text(clean_text(s))
  tok,           \* SpecText: the argument of show_results
  shown,         \* SpecText: the video show_results plays for tok
  tpc            \* SpecText: position

vars == <<pc, runs, audio_bytes, audio_file, result_text, ret_to, arg, tmp_path,
          pipe, text, exc, pending, files, cache, constructions, ui, log, made,
          origin, invoked, reqs, load_failed, err_handle, lpc, lgot, lcalls, lock, all_in,
          s, once, twice, tok, shown, tpc>>

mainVars == <<pc, runs, audio_bytes, audio_file, result_text, ret_to, arg,
              tmp_path, pipe, text, exc, pending, files, ui, log, made, origin,
              invoked, reqs, load_failed, err_handle>>
loadVars == <<lpc, lgot, lcalls, lock, all_in>>
textVars == <<s, once, twice, tok, shown, tpc>>

NoHandle == 0
Unbound == 0
Callers == 1..NCallers

Msg(kind, token, path) == [kind |-> kind, token |-> token, path |-> path]
Returning(v) == [kind |-> "return", val |-> v, exc |-> "none"]
Raising(e) == [kind |-> "raise", val |-> None, exc |-> e]
NoPending == [kind |-> "none", val |-> None, exc |-> "none"]

\* tempfile.NamedTemporaryFile picks a name no existing file has
FreshPath == CHOOSE p \in 1..(Cardinality(files) + 1) : p \notin files

InitMain ==
  /\ pc = "idle" /\ runs = 0
  /\ audio_bytes = NoAudio /\ audio_file = NoAudio /\ result_text = None
  /\ ret_to = "none" /\ arg = "none" /\ tmp_path = Unbound /\ pipe = NoHandle
  /\ text = None /\ exc = "none" /\ pending = NoPending
  /\ files = {} /\ ui = <<>> /\ log = <<>>
  /\ made = 0 /\ origin = "none" /\ invoked = {} /\ reqs = <<>>
  /\ load_failed = FALSE /\ err_handle = NoHandle

InitCache == cache = NoHandle /\ constructions = 0

InitLoad ==
  /\ lpc = [c \in Callers |-> "idle"]
  /\ lgot = [c \in Callers |-> <<"nothing", 0>>]
  /\ lcalls = [c \in Callers |-> 0]
  /\ lock = 0
  /\ all_in = FALSE

InitText ==
  /\ s = <<>> /\ once = None /\ twice = None /\ tok = None /\ shown = "none"
  /\ tpc = "start"

Init == InitMain /\ InitCache /\ InitLoad /\ InitText

\* ------------------------------------------------------- Spec: script runs
\* A user interaction reruns the script from the top: the widgets return
\* their values (lines 105, 115) and result_text = None (line 118).
StartRun ==
  /\ pc \in {"idle", "done", "stopped", "crashed"}
  /\ runs < MaxRuns
  /\ \E ab \in Clips \cup {NoAudio}, af \in Clips \cup {NoAudio} :
       /\ audio_bytes' = ab
       /\ audio_file' = af
  /\ runs' = runs + 1
  /\ result_text' = None
  /\ ui' = <<>> /\ log' = <<>> /\ reqs' = <<>>
  /\ ret_to' = "none" /\ arg' = "none" /\ tmp_path' = Unbound
  /\ pipe' = NoHandle /\ text' = None /\ exc' = "none" /\ pending' = NoPending
  /\ made' = 0 /\ origin' = "none" /\ invoked' = {}
  /\ pc' = "rec"
  /\ UNCHANGED <<files, cache, constructions, load_failed, err_handle, loadVars,
                 textVars>>

\* Entry of process_audio(a), called for the recording or for the upload
Enter(who, a) ==
  /\ ret_to' = who /\ arg' = a
  /\ tmp_path' = Unbound /\ pipe' = NoHandle /\ text' = None
  /\ exc' = "none" /\ pending' = NoPending
  /\ made' = 0 /\ origin' = "none" /\ invoked' = {}
  /\ pc' = "pa_write"

\* main, lines 119-121
RecCheck ==
  /\ pc = "rec"
  /\ IF BytesTruthy(audio_bytes)
     THEN Enter("rec", audio_bytes)
     ELSE /\ pc' = "upl"
          /\ UNCHANGED <<ret_to, arg, tmp_path, pipe, text, exc, pending, made,
                         origin, invoked>>
  /\ UNCHANGED <<runs, audio_bytes, audio_file, result_text, files, cache,
                 constructions, ui, log, reqs, load_failed, err_handle, loadVars,
                 textVars>>

\* main, lines 123-125
UplCheck ==
  /\ pc = "upl"
  /\ IF FileTruthy(audio_file)
     THEN Enter("upl", audio_file)
     ELSE /\ pc' = "show"
          /\ UNCHANGED <<ret_to, arg, tmp_path, pipe, text, exc, pending, made,
                         origin, invoked>>
  /\ UNCHANGED <<runs, audio_bytes, audio_file, result_text, files, cache,
                 constructions, ui, log, reqs, load_failed, err_handle, loadVars,
                 textVars>>

\* process_audio, lines 51-53: create the temporary file, write the bytes,
\* bind tmp_path.  Creating or writing can fail (OSError); a failed write
\* leaves the file (delete=False) and tmp_path unbound.
PaWrite ==
  /\ pc = "pa_write"
  /\ invoked' = invoked \cup {"write"}
  /\ \E outcome \in {"ok", "create_fails", "write_fails"} :
       /\ files' = IF outcome = "create_fails" THEN files
                   ELSE files \cup {FreshPath}
       /\ made' = IF outcome = "create_fails" THEN 0 ELSE FreshPath
       /\ tmp_path' = IF outcome = "ok" THEN FreshPath ELSE Unbound
       /\ exc' = IF outcome = "ok" THEN "none" ELSE "OSError"
       /\ origin' = IF outcome = "ok" THEN "none" ELSE "OSError"
       /\ pc' = IF outcome = "ok" THEN "pa_load" ELSE "pa_except"
  /\ UNCHANGED <<runs, audio_bytes, audio_file, result_text, ret_to, arg, pipe,
                 text, pending, cache, constructions, ui, log, reqs,
                 load_failed, err_handle, loadVars, textVars>>

\* @st.cache_resource with the decorator left out: never a hit
CacheHitNever(c) == FALSE

\* @st.cache_resource (line 33): a value is cached for the function
CacheHit(c) == c # NoHandle

\* process_audio, line 55: pipe = load_whisper_model() (lines 33-46).
\* A hit returns the cached handle.  A miss calls pipeline(...): its value
\* is cached and returned; if it raises, the handler logs, shows an error
\* and calls st.stop(), whose StopException is a BaseException: nothing is
\* cached and `except Exception` of process_audio does not catch it.
PaLoad ==
  /\ pc = "pa_load"
  /\ invoked' = invoked \cup {"load_whisper_model"}
  /\ IF CacheHit(cache)
     THEN /\ pipe' = cache
          /\ pc' = "pa_pipe"
          /\ UNCHANGED <<cache, constructions, ui, log, pending, origin,
                         load_failed>>
     ELSE /\ constructions' = constructions + 1
          /\ \E built \in BOOLEAN :
               IF built
               THEN /\ cache' = constructions + 1
                    /\ pipe' = constructions + 1
                    /\ pc' = "pa_pipe"
                    /\ UNCHANGED <<ui, log, pending, origin, load_failed>>
               ELSE /\ log' = Append(log, Msg("Model loading failed", <<>>, "ModelLoadError"))
                    /\ ui' = Append(ui, Msg("error: Failed to load speech recognition model", <<>>, ""))
                    /\ pending' = Raising("StopException")
                    /\ origin' = "ModelLoadError"
                    /\ load_failed' = TRUE
                    /\ pc' = "pa_finally"
                    /\ UNCHANGED <<cache, pipe>>
  /\ UNCHANGED <<runs, audio_bytes, audio_file, result_text, ret_to, arg,
                 tmp_path, text, exc, files, made, reqs, err_handle, loadVars,
                 textVars>>

\* process_audio, line 56: result = pipe(tmp_path)
PaPipe ==
  /\ pc = "pa_pipe"
  /\ invoked' = invoked \cup {"pipe"}
  /\ IF Transcript(arg) = InferenceError
     THEN /\ exc' = "InferenceError"
          /\ origin' = "InferenceError"
          /\ err_handle' = pipe
          /\ pc' = "pa_except"
          /\ text' = text
     ELSE /\ text' = Transcript(arg)
          /\ pc' = "pa_clean"
          /\ UNCHANGED <<exc, origin, err_handle>>
  /\ UNCHANGED <<runs, audio_bytes, audio_file, result_text, ret_to, arg,
                 tmp_path, pipe, pending, files, cache, constructions, ui, log,
                 made, reqs, load_failed, loadVars, textVars>>

\* process_audio, line 57: return clean_text(result["text"])
PaClean ==
  /\ pc = "pa_clean"
  /\ invoked' = invoked \cup {"clean_text"}
  /\ pending' = Returning(clean_text(text))
  /\ pc' = "pa_finally"
  /\ UNCHANGED <<runs, audio_bytes, audio_file, result_text, ret_to, arg,
                 tmp_path, pipe, text, exc, files, cache, constructions, ui,
                 log, made, origin, reqs, load_failed, err_handle, loadVars,
                 textVars>>

\* process_audio, lines 59-62: except Exception as e
PaExcept ==
  /\ pc = "pa_except"
  /\ log' = Append(log, Msg("Audio processing error", <<>>, exc))
  /\ ui' = Append(ui, Msg("error: Error processing audio", <<>>, ""))
  /\ pending' = Returning(None)
  /\ pc' = "pa_finally"
  /\ UNCHANGED <<runs, audio_bytes, audio_file, result_text, ret_to, arg,
                 tmp_path, pipe, text, exc, files, cache, constructions, made,
                 origin, invoked, reqs, load_failed, err_handle, loadVars,
                 textVars>>

\* lines 121 and 125 with a slip: a failed call keeps the earlier result
AssignedKeepsEarlier(prev, ret) == IF ret = None THEN prev ELSE ret

\* main, lines 121 and 125: result_text = process_audio(...)
Assigned(prev, ret) == ret

\* What leaves process_audio after the finally clause: a read of the
\* unbound tmp_path (line 64) raises UnboundLocalError in place of the
\* pending return or exception.
Leaving == IF tmp_path = Unbound THEN Raising("UnboundLocalError") ELSE pending

\* process_audio, lines 63-68, and the return to main.  os.remove can fail
\* with PermissionError, which is logged; the file then stays.
PaFinally ==
  /\ pc = "pa_finally"
  /\ IF tmp_path # Unbound /\ tmp_path \in files
     THEN \E removed \in BOOLEAN :
            /\ files' = IF removed THEN files \ {tmp_path} ELSE files
            /\ log' = IF removed THEN log
                      ELSE Append(log, Msg("warning: Temporary file cleanup delayed",
                                           <<>>, "PermissionError"))
     ELSE UNCHANGED <<files, log>>
  /\ pending' = Leaving
  /\ reqs' = Append(reqs, [who |-> ret_to, clip |-> arg, origin |-> origin,
                           out |-> Leaving, invoked |-> invoked,
                           leaked |-> made # 0 /\ made \in files'])
  /\ IF Leaving.kind = "return"
     THEN /\ result_text' = Assigned(result_text, Leaving.val)
          /\ pc' = IF ret_to = "rec" THEN "upl" ELSE "show"
     ELSE /\ result_text' = result_text
          /\ pc' = IF Leaving.exc = "StopException" THEN "stopped" ELSE "crashed"
  /\ UNCHANGED <<runs, audio_bytes, audio_file, ret_to, arg, tmp_path, pipe,
                 text, exc, cache, constructions, ui, made, origin, invoked,
                 load_failed, err_handle, loadVars, textVars>>

InfoMsg == [kind |-> "info: Available commands", token |-> <<>>, path |-> "",
            cmds |-> AvailableCommands]

\* show_results(text), lines 131-144; st.video can raise.
Shown(token, played) ==
  <<Msg("Recognized command", token, "")>> \o
  (IF Lookup(token) # NoVideo
   THEN IF played
        THEN <<Msg("video", token, Lookup(token)), Msg("success: Playing", token, "")>>
        ELSE <<Msg("error: Error playing video", token, "")>>
   ELSE <<Msg("warning: No video mapped for", token, ""), InfoMsg>>)

\* main, lines 128-129
ShowCheck ==
  /\ pc = "show"
  /\ IF Truthy(result_text)
     THEN \E played \in BOOLEAN :
            /\ Lookup(result_text) = NoVideo => played
            /\ ui' = ui \o Shown(result_text, played)
     ELSE ui' = ui
  /\ pc' = "done"
  /\ UNCHANGED <<runs, audio_bytes, audio_file, result_text, ret_to, arg,
                 tmp_path, pipe, text, exc, pending, files, cache,
                 constructions, log, made, origin, invoked, reqs, load_failed,
                 err_handle, loadVars, textVars>>

Next ==
  \/ StartRun
  \/ RecCheck
  \/ UplCheck
  \/ PaWrite
  \/ PaLoad
  \/ PaPipe
  \/ PaClean
  \/ PaExcept
  \/ PaFinally
  \/ ShowCheck

Spec == Init /\ [][Next]_vars

\* --------------------------------------- SpecLoad: concurrent first callers
\* Each session runs the script in a thread of its own.  st.cache_resource
\* reads the cache; on a miss it takes the cache's compute lock, reads the
\* cache again and only then calls the function; a value is stored, an
\* exception is not.
LCall(c) ==
  /\ lpc[c] = "idle"
  /\ lcalls[c] < MaxCalls
  /\ lcalls' = [lcalls EXCEPT ![c] = @ + 1]
  /\ lgot' = [lgot EXCEPT ![c] = <<"nothing", 0>>]
  /\ lpc' = [lpc EXCEPT ![c] = "read"]
  /\ UNCHANGED <<lock, all_in, cache, constructions, mainVars, textVars>>

LRead(c) ==
  /\ lpc[c] = "read"
  /\ IF CacheHit(cache)
     THEN /\ lgot' = [lgot EXCEPT ![c] = <<"handle", cache>>]
          /\ lpc' = [lpc EXCEPT ![c] = "idle"]
     ELSE /\ lpc' = [lpc EXCEPT ![c] = "wait"]
          /\ lgot' = lgot
  /\ UNCHANGED <<lcalls, lock, all_in, cache, constructions, mainVars, textVars>>

LAcquire(c) ==
  /\ lpc[c] = "wait"
  /\ lock = 0
  /\ lock' = c
  /\ lpc' = [lpc EXCEPT ![c] = "locked"]
  /\ UNCHANGED <<lgot, lcalls, all_in, cache, constructions, mainVars, textVars>>

LRecheck(c) ==
  /\ lpc[c] = "locked"
  /\ IF CacheHit(cache)
     THEN /\ lgot' = [lgot EXCEPT ![c] = <<"handle", cache>>]
          /\ lpc' = [lpc EXCEPT ![c] = "idle"]
          /\ lock' = 0
     ELSE /\ lpc' = [lpc EXCEPT ![c] = "build"]
          /\ UNCHANGED <<lgot, lock>>
  /\ UNCHANGED <<lcalls, all_in, cache, constructions, mainVars, textVars>>

\* load_whisper_model, lines 36-46: pipeline(...) returns a handle, or
\* raises and the session's script run is stopped by st.stop().
LBuild(c) ==
  /\ lpc[c] = "build"
  /\ constructions' = constructions + 1
  /\ \E built \in BOOLEAN :
       /\ cache' = IF built THEN constructions + 1 ELSE cache
       /\ lgot' = [lgot EXCEPT ![c] = IF built THEN <<"handle", constructions + 1>>
                                       ELSE <<"ModelLoadError", constructions + 1>>]
       /\ load_failed' = (load_failed \/ ~built)
  /\ all_in' = IF constructions = 0 THEN \A d \in Callers : lcalls[d] >= 1
               ELSE all_in
  /\ lock' = 0
  /\ lpc' = [lpc EXCEPT ![c] = "idle"]
  /\ UNCHANGED <<lcalls, pc, runs, audio_bytes, audio_file, result_text, ret_to,
                 arg, tmp_path, pipe, text, exc, pending, files, ui, log, made,
                 origin, invoked, reqs, err_handle, textVars>>

NextLoad ==
  \E c \in Callers :
    \/ LCall(c)
    \/ LRead(c)
    \/ LAcquire(c)
    \/ LRecheck(c)
    \/ LBuild(c)

SpecLoad == Init /\ [][NextLoad]_vars

\* ------------------------------------------- SpecText: the pure functions
InitStrings ==
  /\ InitMain /\ InitCache /\ InitLoad
  /\ s \in Strings(MaxLen)
  /\ once = None /\ twice = None /\ tok = None /\ shown = "none"
  /\ tpc = "start"

TClean ==
  /\ tpc = "start"
  /\ once' = clean_text(s)
  /\ tpc' = "cleaned"
  /\ UNCHANGED <<s, twice, tok, shown, cache, constructions, mainVars, loadVars>>

TCleanAgain ==
  /\ tpc = "cleaned"
  /\ twice' = clean_text(once)
  /\ tpc' = "twice"
  /\ UNCHANGED <<s, once, tok, shown, cache, constructions, mainVars, loadVars>>

\* show_results(s): the lookup of lines 135-136 on the string as drawn
TShow ==
  /\ tpc = "start"
  /\ tok' = s
  /\ shown' = Lookup(s)
  /\ tpc' = "shown"
  /\ UNCHANGED <<s, once, twice, cache, constructions, mainVars, loadVars>>

\* show_results(clean_text(s)), as main calls it for a truthy token
TShowCleaned ==
  /\ tpc = "cleaned"
  /\ Truthy(once)
  /\ tok' = once
  /\ shown' = Lookup(once)
  /\ tpc' = "shown"
  /\ UNCHANGED <<s, once, twice, cache, constructions, mainVars, loadVars>>

NextText == TClean \/ TCleanAgain \/ TShow \/ TShowCleaned

SpecText == InitStrings /\ [][NextText]_vars

\* ================================================================= claims
Finished == pc \in {"done", "stopped", "crashed"}
Recognized == {i \in 1..Len(ui) : ui[i].kind = "Recognized command"}
Logged(e) == \E i \in 1..Len(log) : log[i].path = e
KeyHello == <<"h", "e", "l", "l", "o">>
KeyYes == <<"y", "e", "s">>
KeyNo == <<"n", "o">>
BothInputs == BytesTruthy(audio_bytes) /\ FileTruthy(audio_file)

\* A call that failed ended as Failed with the kind of its failure: it
\* returned None after logging that failure, or, for a model that did not
\* load, stopped the run after reporting it.
FailedWithKind(r) ==
  \/ r.out = Returning(None) /\ Logged(r.origin)
  \/ r.origin = "ModelLoadError" /\ r.out = Raising("StopException")

\* C1: a failure in any stage of a call of process_audio takes the run to
\* Failed with the originating error kind attached, and neither clean_text
\* nor show_results runs for that request.
C1_FailureGoesToFailed ==
  \A i \in 1..Len(reqs) :
    reqs[i].origin # "none" =>
      /\ FailedWithKind(reqs[i])
      /\ "clean_text" \notin reqs[i].invoked
      /\ (i = Len(reqs) => Recognized = {})

\* C2: when all sessions made their first call of the loader before the
\* first construction started, and none has called again, pipeline(...) has
\* been called at most once and all sessions that have an answer have the
\* same one (one handle, or one error).
C2_OneConstruction ==
  (all_in /\ \A c \in Callers : lcalls[c] <= 1) =>
    /\ constructions <= 1
    /\ \A c, d \in Callers :
         (lgot[c][1] # "nothing" /\ lgot[d][1] # "nothing") => lgot[c] = lgot[d]

\* C3: once a model construction has failed, no step constructs the model
\* again.
C3_NoRetryAfterLoadFailure ==
  [][load_failed => constructions' = constructions]_vars

\* C4: after a call of the model raised InferenceError, the cache still holds
\* the handle that call used, no construction has happened since that handle
\* was built, and a later call is transcribed with that same handle.
C4_InferenceErrorKeepsHandle ==
  err_handle # NoHandle =>
    /\ cache = err_handle
    /\ constructions = err_handle
    /\ (pc \in {"pa_pipe", "pa_clean"} => pipe = err_handle)

\* C4 witness: the recording's call raised InferenceError and the upload of
\* the same run has been transcribed with the same handle.
C4_Witness ==
  /\ pc = "pa_clean" /\ ret_to = "upl"
  /\ Len(reqs) = 1 /\ reqs[1].origin = "InferenceError"
  /\ err_handle # NoHandle /\ pipe = err_handle /\ text = <<"Y", "e", "s", "!">>

\* C5: clean_text is idempotent: clean_text(clean_text(s)) = clean_text(s).
C5_Idempotent == tpc = "twice" => twice = once

\* C6: a run whose last call returned the empty token ends with the
\* available commands [hello, yes, no] displayed, so that it differs from a
\* run without input, which displays nothing.
C6_EmptyTokenIsUnmatched ==
  (pc = "done" /\ Len(reqs) > 0 /\ reqs[Len(reqs)].out = Returning(<<>>)) =>
    \E i \in 1..Len(ui) :
      /\ ui[i].kind = "info: Available commands"
      /\ ui[i].cmds = <<KeyHello, KeyYes, KeyNo>>

\* C7: a call on empty or malformed bytes fails without invoking the model
\* loader or the model.
C7_MalformedNeverReachesModel ==
  \A i \in 1..Len(reqs) :
    reqs[i].clip \in {"empty", "corrupt"} =>
      /\ reqs[i].origin # "none"
      /\ reqs[i].invoked \cap {"load_whisper_model", "pipe"} = {}

\* C8: when a call of process_audio has ended, the temporary file it created
\* no longer exists, and the cleanup raised no error of its own.
C8_TempFileReleased ==
  \A i \in 1..Len(reqs) :
    /\ ~reqs[i].leaked
    /\ reqs[i].out.exc # "UnboundLocalError"

\* C9: show_results plays a video exactly for the three keys of
\* VIDEO_MAPPING, and then that key's video; every other string, one that
\* extends a key or differs from it in case included, gets none.
C9_ExactMatch ==
  tpc = "shown" =>
    /\ (tok = KeyHello => shown = "videos/hello.mp4")
    /\ (tok = KeyYes => shown = "videos/yes.mp4")
    /\ (tok = KeyNo => shown = "videos/no.mp4")
    /\ (tok \notin {KeyHello, KeyYes, KeyNo} => shown = NoVideo)

\* C9 witness: "yess" has been looked up and resolved to no video.
C9_Witness == tpc = "shown" /\ tok = <<"y", "e", "s", "s">> /\ shown = NoVideo

\* C10 as stated: a finished run with both inputs has run process_audio
\* twice, recording then upload, and displays the upload's token if it is
\* truthy and nothing otherwise.
C10_AlwaysTwice ==
  (Finished /\ BothInputs) =>
    /\ Len(reqs) = 2 /\ reqs[1].who = "rec" /\ reqs[2].who = "upl"
    /\ Cardinality(Recognized) = IF Truthy(reqs[2].out.val) THEN 1 ELSE 0

\* C10 amended: with both inputs the recording is processed first.  If that
\* call returns, the upload is processed next, result_text is what the
\* upload's call returned, and a result is displayed only for that value; if
\* a call ends the run instead, later calls are not made and no result is
\* displayed.  A run never displays more than one result.
C10_UploadDecides ==
  /\ Cardinality(Recognized) <= 1
  /\ (Finished /\ BothInputs) =>
       /\ Len(reqs) >= 1 /\ reqs[1].who = "rec"
       /\ (reqs[1].out.kind = "return") = (Len(reqs) = 2)
       /\ Len(reqs) = 2 => reqs[2].who = "upl"
       /\ pc = "done" =>
            /\ Len(reqs) = 2
            /\ result_text = reqs[2].out.val
            /\ \A i \in Recognized : ui[i].token = reqs[2].out.val
            /\ (Recognized # {}) = Truthy(reqs[2].out.val)
       /\ pc # "done" => Recognized = {}

\* C10 witness: the recording was recognized as "yes", the upload failed, and
\* the finished run displays no result.
C10_Witness ==
  /\ pc = "done" /\ BothInputs
  /\ Len(reqs) = 2
  /\ reqs[1].out = Returning(KeyYes)
  /\ reqs[2].out = Returning(None)
  /\ Recognized = {}

====
